---- MODULE Spec2Model ----
(***************************************************************************)
(* tools/generate_serialization_test_data.py: the pipeline that checks the *)
(* prerequisites, resets the workspace (temp_dir), clones and builds       *)
(* datasketches-java in it and copies the generated *.sk files into the    *)
(* fixture directory (output_dir).                                         *)
(*                                                                         *)
(* A directory is the set of its entries, at any depth, itself included:   *)
(* an entry is a record [path, kind, data], path being the names from the  *)
(* directory down to the entry, <<>> for the directory itself.  A path     *)
(* that does not exist has no entry: NoPath.  Names and the text java      *)
(* prints are character sequences, so that the glob and the regular        *)
(* expression are computed on them.                                        *)
(***************************************************************************)
EXTENDS Integers, Sequences, FiniteSets, TLC

VARIABLES
    temp_dir,       \* what is at <project_root>/tmp_datasketches_java
    output_dir,     \* what is at tests/serialization_test_data/java_generated_files
    pc,             \* pc[r]: where run r of main() is
    path,           \* path[r]: the commands shutil.which resolves for run r
    java,           \* java[r]: what result.stderr held, <<>> before the check
    ops,            \* ops[r]: the filesystem operations and child processes of run r, in order
    out,            \* out[r]: the lines run r printed, in order
    todo,           \* todo[r]: the entries the glob listed that the loop has not reached
    files_copied,   \* files_copied[r]
    exit,           \* exit[r]: the exit status of run r, -1 while there is none
    temp_dir0,      \* temp_dir0[r]: temp_dir as it was when run r started
    output_dir0     \* output_dir0[r]: output_dir as it was when run r started

vars == <<temp_dir, output_dir, pc, path, java, ops, out, todo, files_copied, exit,
          temp_dir0, output_dir0>>

---------------------------------------------------------------------------
(* Bounds *)

\* File contents are 1..MaxData.
MaxData == 2

---------------------------------------------------------------------------
(* Program constants *)

\* The Java major version check_java_version requires.
RequiredJava == 25

\* The status Python ends with on a KeyboardInterrupt nobody catches.
SIGINT_STATUS == 130

\* The invocations of the script; each has its own process state.
Runs == {1, 2}


Tools == {"git", "mvn", "java"}

Data == 1..MaxData

Digits == {"0", "1", "2", "3", "4", "5", "6", "7", "8", "9"}

DigitVal(c) ==
    CASE c = "0" -> 0 [] c = "1" -> 1 [] c = "2" -> 2 [] c = "3" -> 3 [] c = "4" -> 4
      [] c = "5" -> 5 [] c = "6" -> 6 [] c = "7" -> 7 [] c = "8" -> 8 [] c = "9" -> 9

---------------------------------------------------------------------------
(* check_java_version: re.search(r'version "(\d+)', output) *)

\* The literal part of the pattern: version "
VersionLiteral == <<"v", "e", "r", "s", "i", "o", "n", " ", "\"">>

\* The pattern matches at position i: the literal, then at least one digit.
MatchAt(s, i) ==
    /\ i + Len(VersionLiteral) <= Len(s)
    /\ SubSeq(s, i, i + Len(VersionLiteral) - 1) = VersionLiteral
    /\ s[i + Len(VersionLiteral)] \in Digits

\* re.search: the leftmost position the pattern matches at, 0 for None.
RECURSIVE SearchFrom(_, _)
SearchFrom(s, i) ==
    IF i > Len(s) THEN 0
    ELSE IF MatchAt(s, i) THEN i
    ELSE SearchFrom(s, i + 1)

re_search(s) == SearchFrom(s, 1)

\* (\d+) is greedy: the digits from position i on, as far as they go.
RECURSIVE DigitRun(_, _)
DigitRun(s, i) ==
    IF i <= Len(s) /\ s[i] \in Digits THEN <<s[i]>> \o DigitRun(s, i + 1) ELSE <<>>

\* int(match.group(1))
RECURSIVE int(_)
int(ds) ==
    IF ds = <<>> THEN 0
    ELSE 10 * int(SubSeq(ds, 1, Len(ds) - 1)) + DigitVal(ds[Len(ds)])

group1(s) == DigitRun(s, re_search(s) + Len(VersionLiteral))

\* The check, were it for a minimum version.
wrong_version_below(version) == version < RequiredJava

\* if version != 25
wrong_version(version) == version # RequiredJava

\* What java -version may write to stderr; OSError stands for subprocess.run raising.
OSError == <<"O", "S", "E", "r", "r", "o", "r">>

JavaOutputs ==
    { <<"o", "p", "e", "n", "j", "d", "k", " ">> \o VersionLiteral \o <<"2", "5", ".", "0", ".", "1", "\"">>,
      <<"j", "a", "v", "a", " ">> \o VersionLiteral \o <<"2", "5", "\"">>,
      VersionLiteral \o <<"2", "4", ".", "0", ".", "2", "\"">>,
      VersionLiteral \o <<"2", "6", "\"">>,
      VersionLiteral \o <<"2", "5", "0", "\"">>,
      VersionLiteral \o <<"2", "\"">>,
      VersionLiteral \o <<"1", ".", "8", ".", "0", "_", "2", "5", "\"">>,
      <<"v", "e", "r", "s", "i", "o", "n", " ", "2", "5">>,
      VersionLiteral \o <<"x", "2", "5", "\"">>,
      <<"n", "o", "t", " ", "f", "o", "u", "n", "d">>,
      OSError }

---------------------------------------------------------------------------
(* Directories *)

Dir(p) == [path |-> p, kind |-> "dir", data |-> 0]

File(p, d) == [path |-> p, kind |-> "file", data |-> d]

\* Nothing is at the path; a directory with nothing in it.
NoPath == {}

EmptyDir == {Dir(<<>>)}

Paths(tree) == {e.path : e \in tree}

\* Path.exists()
exists(tree, p) == p \in Paths(tree)

\* The entry of a directory at a path; the path must exist.
At(tree, p) == CHOOSE e \in tree : e.path = p

Last(p) == p[Len(p)]

\* Step 3, were it to leave out the rmtree.
Removed_never(tree) == tree

\* if temp_dir.exists(): shutil.rmtree(temp_dir)
Removed(tree) == IF exists(tree, <<>>) THEN NoPath ELSE tree

\* temp_dir.mkdir(): a directory that exists stays as it is, and mkdir raises.
Made(tree) == IF exists(tree, <<>>) THEN tree ELSE EmptyDir

\* Step 3 of main(), as a whole.
reset(tree) == Made(Removed(tree))

\* Writing entries into a directory replaces the entries of the same paths.
WriteAll(tree, new) == {e \in tree : e.path \notin Paths(new)} \cup new

\* The characters of the names in use.
Chars(n) ==
    CASE n = "a.sk" -> <<"a", ".", "s", "k">>
      [] n = "b.sk" -> <<"b", ".", "s", "k">>
      [] n = "d.sk" -> <<"d", ".", "s", "k">>
      [] n = "e.sk" -> <<"e", ".", "s", "k">>
      [] n = "c.txt" -> <<"c", ".", "t", "x", "t">>
      [] n = "f.skx" -> <<"f", ".", "s", "k", "x">>
      [] n = "sk" -> <<"s", "k">>
      [] n = "sub" -> <<"s", "u", "b">>
      [] n = "*.sk" -> <<"*", ".", "s", "k">>

\* fnmatch: * matches any run of characters, every other character itself.
RECURSIVE fnmatch(_, _)
fnmatch(name, pat) ==
    IF pat = <<>> THEN name = <<>>
    ELSE IF Head(pat) = "*"
         THEN \/ fnmatch(name, Tail(pat))
              \/ name # <<>> /\ fnmatch(Tail(name), pat)
    ELSE /\ name # <<>>
         /\ Head(name) = Head(pat)
         /\ fnmatch(Tail(name), Tail(pat))

\* Path.glob(pattern) on the directory at path p of a tree: the entries directly
\* in it, files and directories alike, whose name matches.
glob(tree, p, pattern) ==
    { e \in tree : /\ Len(e.path) = Len(p) + 1
                   /\ SubSeq(e.path, 1, Len(p)) = p
                   /\ fnmatch(Chars(Last(e.path)), Chars(pattern)) }

\* copy2, were it to leave a file that is already there as it is.
copy2_keeping(src, dst) ==
    IF exists(dst, <<Last(src.path)>>) THEN dst
    ELSE dst \cup {File(<<Last(src.path)>>, src.data)}

\* copy2, were it to write next to what is there.
copy2_adding(src, dst) == dst \cup {File(<<Last(src.path)>>, src.data)}

\* shutil.copy2(file_path, output_dir): the file lands in the directory under
\* its own name, in place of a file of that name.
copy2(src, dst) ==
    {e \in dst : e.path # <<Last(src.path)>>} \cup {File(<<Last(src.path)>>, src.data)}

\* generated_files_dir, relative to temp_dir.
generated_files_dir == <<"serialization_test_data", "java_generated_files">>

Gen(n) == generated_files_dir \o <<n>>

\* What git clone puts into the directory it is given.
Checkout == EmptyDir \cup {Dir(<<".git">>), File(<<"pom.xml">>, 1)}

\* What the generated-files directory may hold after mvn test.
Listings ==
    {{}}
    \cup {{File(Gen("a.sk"), d)} : d \in Data}
    \cup {{File(Gen("a.sk"), d), File(Gen("b.sk"), 1), File(Gen("c.txt"), 1)} : d \in Data}
    \cup {{File(Gen("c.txt"), 1), File(Gen("f.skx"), 1), File(Gen("sk"), 1),
           Dir(Gen("sub")), File(Gen("sub") \o <<"e.sk">>, 1)}}
    \cup {{File(Gen("a.sk"), d), Dir(Gen("sub")), File(Gen("sub") \o <<"e.sk">>, 1)} : d \in Data}
    \cup {{File(Gen("a.sk"), d), Dir(Gen("d.sk"))} : d \in Data}

GenDirs == {Dir(<<"serialization_test_data">>), Dir(generated_files_dir)}

\* What mvn test may leave in its working directory.
BuildOutputs ==
    {{Dir(<<"target">>)}} \cup {{Dir(<<"target">>)} \cup GenDirs \cup l : l \in Listings}

\* What a run may find at temp_dir.
InitWorkspaces ==
    { NoPath, EmptyDir, EmptyDir \cup {Dir(<<".git">>)},
      Checkout \cup {Dir(<<"target">>)} \cup GenDirs
        \cup {File(Gen("a.sk"), 1), File(Gen("b.sk"), 1)} }

\* What a run may find at output_dir.
InitFixtures ==
    {NoPath}
    \cup { EmptyDir \cup a \cup b : a \in {{}} \cup {{File(<<"a.sk">>, d)} : d \in Data},
                                  b \in SUBSET {File(<<"b.sk">>, 1), File(<<"c.txt">>, 1)} }

---------------------------------------------------------------------------
(* The runs *)

Active == {"check_git", "check_mvn", "check_java", "java_version", "rmtree", "mkdir",
           "clone", "build", "check_generated", "mkdir_output", "glob", "copy"}

\* sys.exit(1) or an exception nobody catches; main() returned; the process was interrupted.
Ended == {"exited", "done", "killed"}

Init ==
    /\ temp_dir \in InitWorkspaces
    /\ output_dir \in InitFixtures
    /\ pc = [r \in Runs |-> "idle"]
    /\ path = [r \in Runs |-> {}]
    /\ java = [r \in Runs |-> <<>>]
    /\ ops = [r \in Runs |-> <<>>]
    /\ out = [r \in Runs |-> <<>>]
    /\ todo = [r \in Runs |-> {}]
    /\ files_copied = [r \in Runs |-> 0]
    /\ exit = [r \in Runs |-> -1]
    /\ temp_dir0 = [r \in Runs |-> NoPath]
    /\ output_dir0 = [r \in Runs |-> NoPath]

\* sys.exit(1), having printed msg.
Fatal(r, msg) ==
    /\ out' = [out EXCEPT ![r] = Append(@, msg)]
    /\ pc' = [pc EXCEPT ![r] = "exited"]
    /\ exit' = [exit EXCEPT ![r] = 1]

\* An exception no handler catches: the traceback, and exit status 1.
Uncaught(r, exc) == Fatal(r, <<"Traceback", exc>>)

\* The script is started: python runs main().
Start(r) ==
    /\ pc[r] \in {"idle"} \cup Ended
    /\ \E p \in SUBSET Tools : path' = [path EXCEPT ![r] = p]
    /\ pc' = [pc EXCEPT ![r] = "check_git"]
    /\ java' = [java EXCEPT ![r] = <<>>]
    /\ ops' = [ops EXCEPT ![r] = <<>>]
    /\ out' = [out EXCEPT ![r] = <<>>]
    /\ todo' = [todo EXCEPT ![r] = {}]
    /\ files_copied' = [files_copied EXCEPT ![r] = 0]
    /\ exit' = [exit EXCEPT ![r] = -1]
    /\ temp_dir0' = [temp_dir0 EXCEPT ![r] = temp_dir]
    /\ output_dir0' = [output_dir0 EXCEPT ![r] = output_dir]
    /\ UNCHANGED <<temp_dir, output_dir>>

\* The calls of lines 65 and 66, were they in the other order.
Checked_swapped(p) ==
    CASE p = "check_git" -> "mvn" [] p = "check_mvn" -> "git" [] p = "check_java" -> "java"

\* The command each of the three calls of check_command_installed checks, and
\* where main() goes on from it.
Checked(p) ==
    CASE p = "check_git" -> "git" [] p = "check_mvn" -> "mvn" [] p = "check_java" -> "java"

AfterCheck(p) ==
    CASE p = "check_git" -> "check_mvn" [] p = "check_mvn" -> "check_java"
      [] p = "check_java" -> "java_version"

\* check_command_installed, were it to print and go on.
check_command_installed_going_on(r) ==
    /\ pc[r] \in {"check_git", "check_mvn", "check_java"}
    /\ pc' = [pc EXCEPT ![r] = AfterCheck(pc[r])]
    /\ out' = [out EXCEPT ![r] =
                 IF Checked(pc[r]) \in path[r] THEN @
                 ELSE Append(@, <<"Error: not installed or not in PATH", Checked(pc[r])>>)]
    /\ UNCHANGED <<temp_dir, output_dir, path, java, ops, todo, files_copied, exit,
                   temp_dir0, output_dir0>>

check_command_installed(r) ==
    /\ pc[r] \in {"check_git", "check_mvn", "check_java"}
    /\ IF Checked(pc[r]) \in path[r]
       THEN /\ pc' = [pc EXCEPT ![r] = AfterCheck(pc[r])]
            /\ UNCHANGED <<out, exit>>
       ELSE Fatal(r, <<"Error: not installed or not in PATH", Checked(pc[r])>>)
    /\ UNCHANGED <<temp_dir, output_dir, path, java, ops, todo, files_copied, temp_dir0, output_dir0>>

check_java_version(r) ==
    /\ pc[r] = "java_version"
    /\ \E output \in JavaOutputs :
        /\ java' = [java EXCEPT ![r] = output]
        /\ ops' = [ops EXCEPT ![r] = Append(@, <<"java -version">>)]
        /\ IF output = OSError
           THEN Fatal(r, <<"Error checking Java version">>)
           ELSE IF re_search(output) # 0
           THEN IF wrong_version(int(group1(output)))
                THEN Fatal(r, <<"Error: Java 25 is required, but found Java", int(group1(output))>>)
                ELSE /\ out' = [out EXCEPT ![r] = Append(@, <<"Found Java", int(group1(output))>>)]
                     /\ pc' = [pc EXCEPT ![r] = "rmtree"]
                     /\ UNCHANGED exit
           ELSE /\ out' = [out EXCEPT ![r] = @ \o << <<"Error: Could not parse Java version.">>, <<output>> >>]
                /\ pc' = [pc EXCEPT ![r] = "exited"]
                /\ exit' = [exit EXCEPT ![r] = 1]
    /\ UNCHANGED <<temp_dir, output_dir, path, todo, files_copied, temp_dir0, output_dir0>>

\* Step 3, were the directory of an earlier run left as it is.
rmtree_skipped(r) ==
    /\ pc[r] = "rmtree"
    /\ pc' = [pc EXCEPT ![r] = "mkdir"]
    /\ UNCHANGED <<temp_dir, output_dir, path, java, ops, out, todo, files_copied, exit, temp_dir0, output_dir0>>

\* if temp_dir.exists(): shutil.rmtree(temp_dir)
rmtree(r) ==
    /\ pc[r] = "rmtree"
    /\ temp_dir' = Removed(temp_dir)
    /\ IF exists(temp_dir, <<>>)
       THEN /\ ops' = [ops EXCEPT ![r] = Append(@, <<"rmtree">>)]
            /\ out' = [out EXCEPT ![r] = Append(@, <<"Removing existing temporary directory">>)]
       ELSE UNCHANGED <<ops, out>>
    /\ pc' = [pc EXCEPT ![r] = "mkdir"]
    /\ UNCHANGED <<output_dir, path, java, todo, files_copied, exit, temp_dir0, output_dir0>>

\* temp_dir.mkdir()
mkdir(r) ==
    /\ pc[r] = "mkdir"
    /\ IF ~exists(temp_dir, <<>>)
       THEN /\ temp_dir' = Made(temp_dir)
            /\ ops' = [ops EXCEPT ![r] = Append(@, <<"mkdir">>)]
            /\ pc' = [pc EXCEPT ![r] = "clone"]
            /\ UNCHANGED <<out, exit>>
       ELSE /\ Uncaught(r, "FileExistsError")
            /\ UNCHANGED <<temp_dir, ops>>
    /\ UNCHANGED <<output_dir, path, java, todo, files_copied, temp_dir0, output_dir0>>

\* run_command, were it to try again after a status other than 0.
run_command_retrying(r, command, status, next) ==
    /\ ops' = [ops EXCEPT ![r] = Append(@, <<"run", command, status>>)]
    /\ out' = [out EXCEPT ![r] = Append(@, <<"Running", command>>)]
    /\ pc' = [pc EXCEPT ![r] = IF status = 0 THEN next ELSE @]
    /\ UNCHANGED exit

\* run_command, were it subprocess.call: the status is not looked at.
run_command_unchecked(r, command, status, next) ==
    /\ ops' = [ops EXCEPT ![r] = Append(@, <<"run", command, status>>)]
    /\ out' = [out EXCEPT ![r] = Append(@, <<"Running", command>>)]
    /\ pc' = [pc EXCEPT ![r] = next]
    /\ UNCHANGED exit

\* run_command: the command is printed and run; a status other than 0 is fatal.
run_command(r, command, status, next) ==
    /\ ops' = [ops EXCEPT ![r] = Append(@, <<"run", command, status>>)]
    /\ IF status = 0
       THEN /\ out' = [out EXCEPT ![r] = Append(@, <<"Running", command>>)]
            /\ pc' = [pc EXCEPT ![r] = next]
            /\ UNCHANGED exit
       ELSE /\ out' = [out EXCEPT ![r] = @ \o << <<"Running", command>>, <<"Error running command", command>> >>]
            /\ pc' = [pc EXCEPT ![r] = "exited"]
            /\ exit' = [exit EXCEPT ![r] = 1]

\* run_command(["git", "clone", repo_url, str(temp_dir)]): git clones into a
\* directory that is empty or missing, and refuses any other.
clone(r) ==
    /\ pc[r] = "clone"
    /\ \E status \in (IF temp_dir \in {NoPath, EmptyDir} THEN {0, 128} ELSE {128}) :
        /\ run_command(r, "git clone", status, "build")
        /\ temp_dir' = IF status = 0 THEN Checkout ELSE temp_dir
    /\ UNCHANGED <<output_dir, path, java, todo, files_copied, temp_dir0, output_dir0>>

\* What mvn test may end with and leave behind in the working directory tree:
\* without a pom.xml there it fails and writes nothing.
MvnOutcomes(tree) ==
    IF File(<<"pom.xml">>, 1) \in tree
    THEN {0, 1} \X BuildOutputs
    ELSE {<<1, {}>>}

\* Step 5, were a working directory that is not there made by the call.
build_making_cwd(r) ==
    /\ pc[r] = "build"
    /\ \E o \in MvnOutcomes(Made(temp_dir)) :
        /\ run_command(r, "mvn test", o[1], "check_generated")
        /\ temp_dir' = WriteAll(Made(temp_dir), o[2])
    /\ UNCHANGED <<output_dir, path, java, todo, files_copied, temp_dir0, output_dir0>>

\* run_command(mvn_cmd, cwd=temp_dir): mvn leaves its output in the working
\* directory, whatever status it ends with; a working directory that is not
\* there is an error of subprocess, which run_command does not catch.
build(r) ==
    /\ pc[r] = "build"
    /\ IF ~exists(temp_dir, <<>>)
       THEN /\ Uncaught(r, "FileNotFoundError")
            /\ UNCHANGED <<temp_dir, ops>>
       ELSE \E o \in MvnOutcomes(temp_dir) :
            /\ run_command(r, "mvn test", o[1], "check_generated")
            /\ temp_dir' = WriteAll(temp_dir, o[2])
    /\ UNCHANGED <<output_dir, path, java, todo, files_copied, temp_dir0, output_dir0>>

\* Step 6, were output_dir made before generated_files_dir is looked for.
check_generated_after_mkdir(r) ==
    /\ pc[r] = "check_generated"
    /\ output_dir' = IF exists(output_dir, <<>>) THEN output_dir ELSE EmptyDir
    /\ IF exists(temp_dir, generated_files_dir)
       THEN /\ pc' = [pc EXCEPT ![r] = "mkdir_output"]
            /\ UNCHANGED <<out, exit>>
       ELSE Fatal(r, <<"Error: Expected generated files directory not found">>)
    /\ UNCHANGED <<temp_dir, path, java, ops, todo, files_copied, temp_dir0, output_dir0>>

\* if not generated_files_dir.exists(): sys.exit(1)
check_generated(r) ==
    /\ pc[r] = "check_generated"
    /\ IF exists(temp_dir, generated_files_dir)
       THEN /\ pc' = [pc EXCEPT ![r] = "mkdir_output"]
            /\ UNCHANGED <<out, exit>>
       ELSE Fatal(r, <<"Error: Expected generated files directory not found">>)
    /\ UNCHANGED <<temp_dir, output_dir, path, java, ops, todo, files_copied, temp_dir0, output_dir0>>

\* Step 6, were it to start from a fresh output_dir as step 3 does for temp_dir.
mkdir_output_fresh(r) ==
    /\ pc[r] = "mkdir_output"
    /\ out' = [out EXCEPT ![r] = Append(@, <<"Copying files">>)]
    /\ output_dir' = EmptyDir
    /\ ops' = [ops EXCEPT ![r] = Append(@, <<"mkdir output_dir">>)]
    /\ pc' = [pc EXCEPT ![r] = "glob"]
    /\ UNCHANGED <<temp_dir, path, java, todo, files_copied, exit, temp_dir0, output_dir0>>

\* output_dir.mkdir(parents=True, exist_ok=True)
mkdir_output(r) ==
    /\ pc[r] = "mkdir_output"
    /\ out' = [out EXCEPT ![r] = Append(@, <<"Copying files">>)]
    /\ IF ~exists(output_dir, <<>>)
       THEN /\ output_dir' = EmptyDir
            /\ ops' = [ops EXCEPT ![r] = Append(@, <<"mkdir output_dir">>)]
       ELSE UNCHANGED <<output_dir, ops>>
    /\ pc' = [pc EXCEPT ![r] = "glob"]
    /\ UNCHANGED <<temp_dir, path, java, todo, files_copied, exit, temp_dir0, output_dir0>>

\* files_copied = 0, and the for statement asks the glob for its first entry:
\* the directory is listed once, here.
glob_sk(r) ==
    /\ pc[r] = "glob"
    /\ files_copied' = [files_copied EXCEPT ![r] = 0]
    /\ todo' = [todo EXCEPT ![r] =
                  IF exists(temp_dir, generated_files_dir)
                  THEN {Last(e.path) : e \in glob(temp_dir, generated_files_dir, "*.sk")}
                  ELSE {}]
    /\ pc' = [pc EXCEPT ![r] = "copy"]
    /\ UNCHANGED <<temp_dir, output_dir, path, java, ops, out, exit, temp_dir0, output_dir0>>

\* One turn of the loop, on any entry the listing holds: the listing has no order.
copy_one(r) ==
    /\ pc[r] = "copy"
    /\ \E n \in todo[r] :
        IF ~exists(temp_dir, Gen(n)) \/ ~exists(output_dir, <<>>)
        THEN /\ Uncaught(r, "FileNotFoundError")
             /\ UNCHANGED <<output_dir, ops, todo, files_copied>>
        ELSE IF At(temp_dir, Gen(n)).kind = "dir"
        THEN /\ Uncaught(r, "IsADirectoryError")
             /\ UNCHANGED <<output_dir, ops, todo, files_copied>>
        ELSE /\ output_dir' = copy2(At(temp_dir, Gen(n)), output_dir)
             /\ ops' = [ops EXCEPT ![r] = Append(@, <<"copy2", n>>)]
             /\ out' = [out EXCEPT ![r] = Append(@, <<"Copied", n>>)]
             /\ files_copied' = [files_copied EXCEPT ![r] = @ + 1]
             /\ todo' = [todo EXCEPT ![r] = @ \ {n}]
             /\ UNCHANGED <<pc, exit>>
    /\ UNCHANGED <<temp_dir, path, java, temp_dir0, output_dir0>>

\* Step 7, were its last line not commented out: shutil.rmtree(temp_dir).
report_cleaning(r) ==
    /\ pc[r] = "copy"
    /\ todo[r] = {}
    /\ out' = [out EXCEPT ![r] = Append(@,
                 IF files_copied[r] = 0
                 THEN <<"Warning: No .sk files were found to copy.">>
                 ELSE <<"Successfully copied", files_copied[r]>>)]
    /\ temp_dir' = NoPath
    /\ pc' = [pc EXCEPT ![r] = "done"]
    /\ exit' = [exit EXCEPT ![r] = 0]
    /\ UNCHANGED <<output_dir, path, java, ops, todo, files_copied, temp_dir0, output_dir0>>

\* The report, were no file to copy a fatal condition.
report_zero_fatal(r) ==
    /\ pc[r] = "copy"
    /\ todo[r] = {}
    /\ out' = [out EXCEPT ![r] = Append(@,
                 IF files_copied[r] = 0
                 THEN <<"Error: No .sk files were found to copy.">>
                 ELSE <<"Successfully copied", files_copied[r]>>)]
    /\ pc' = [pc EXCEPT ![r] = IF files_copied[r] = 0 THEN "exited" ELSE "done"]
    /\ exit' = [exit EXCEPT ![r] = IF files_copied[r] = 0 THEN 1 ELSE 0]
    /\ UNCHANGED <<temp_dir, output_dir, path, java, ops, todo, files_copied, temp_dir0, output_dir0>>

\* The loop is over: the count is reported and main() returns.
report(r) ==
    /\ pc[r] = "copy"
    /\ todo[r] = {}
    /\ out' = [out EXCEPT ![r] = Append(@,
                 IF files_copied[r] = 0
                 THEN <<"Warning: No .sk files were found to copy.">>
                 ELSE <<"Successfully copied", files_copied[r]>>)]
    /\ pc' = [pc EXCEPT ![r] = "done"]
    /\ exit' = [exit EXCEPT ![r] = 0]
    /\ UNCHANGED <<temp_dir, output_dir, path, java, ops, todo, files_copied, temp_dir0, output_dir0>>

\* The operator interrupts the run; nothing catches the interrupt and nothing
\* is cleaned up.  A child process that was running leaves what it had written.
interrupt(r) ==
    /\ pc[r] \in Active
    /\ pc' = [pc EXCEPT ![r] = "killed"]
    /\ exit' = [exit EXCEPT ![r] = SIGINT_STATUS]
    /\ \E partial \in (IF pc[r] = "clone" /\ temp_dir = EmptyDir THEN {{}, {Dir(<<".git">>)}}
                       ELSE IF pc[r] = "build" /\ exists(temp_dir, <<>>)
                            THEN {{}, {Dir(<<"target">>)} \cup GenDirs \cup {File(Gen("a.sk"), 1)}}
                       ELSE {{}}) :
        temp_dir' = WriteAll(temp_dir, partial)
    /\ UNCHANGED <<output_dir, path, java, ops, out, todo, files_copied, temp_dir0, output_dir0>>

Step(r) ==
    \/ check_command_installed(r)
    \/ check_java_version(r)
    \/ rmtree(r)
    \/ mkdir(r)
    \/ clone(r)
    \/ build(r)
    \/ check_generated(r)
    \/ mkdir_output(r)
    \/ glob_sk(r)
    \/ copy_one(r)
    \/ report(r)
    \/ interrupt(r)

\* One invoker, as the script assumes: invocation 1 is run again and again, one
\* run at a time, and invocation 2 is never started.
Next == Start(1) \/ Step(1)

Spec == Init /\ [][Next]_vars

\* The other of the two invocations.
Other(r) == CHOOSE r2 \in Runs : r2 # r

\* Two invokers with the same working directory, each starting the script
\* once, where the three tools are installed and java is Java 25: the steps of
\* the two runs interleave in any order, and nothing in the script keeps one
\* run out of temp_dir while the other uses it.
Java25Installed == <<"j", "a", "v", "a", " ">> \o VersionLiteral \o <<"2", "5", "\"">>

StartOnce(r) ==
    /\ pc[r] = "idle"
    /\ Start(r)
    /\ path'[r] = Tools

StepConc(r) ==
    \/ check_command_installed(r)
    \/ check_java_version(r) /\ java'[r] = Java25Installed
    \/ rmtree(r)
    \/ mkdir(r)
    \/ clone(r)
    \/ build(r)
    \/ check_generated(r)
    \/ mkdir_output(r)
    \/ glob_sk(r)
    \/ copy_one(r)
    \/ report(r)

NextConc == \E r \in Runs : StartOnce(r) \/ StepConc(r)

\* There is no fixture directory yet.
InitConc == Init /\ output_dir = NoPath

SpecConc == InitConc /\ [][NextConc]_vars

\* One invoker running the script twice: the first run in whatever environment
\* and ending however it ends, the second after the first has ended, with the
\* three tools installed and Java 25.
StartAfter(r) ==
    /\ pc[Other(r)] \in Ended
    /\ StartOnce(r)

NextTwice ==
    \/ pc[1] = "idle" /\ Start(1)
    \/ Step(1)
    \/ StartAfter(2)
    \/ StepConc(2)

SpecTwice == Init /\ [][NextTwice]_vars

---------------------------------------------------------------------------
(* What the properties are stated with *)

Has(seq, x) == \E i \in DOMAIN seq : seq[i] = x

\* The run ended by itself: main() returned, or sys.exit or an exception ended it.
Finished(r) == pc[r] \in {"done", "exited"}

\* The name ends in .sk
EndsInSk(n) ==
    LET c == Chars(n)
    IN  Len(c) >= 3 /\ SubSeq(c, Len(c) - 2, Len(c)) = <<".", "s", "k">>

\* The entries directly inside the build's output directory whose name ends in .sk
SkEntries(tree) ==
    { e \in tree : /\ Len(e.path) = Len(generated_files_dir) + 1
                   /\ SubSeq(e.path, 1, Len(generated_files_dir)) = generated_files_dir
                   /\ EndsInSk(Last(e.path)) }

FilesOf(tree) == {e \in tree : e.kind = "file"}

\* The files of a set of entries, as <<name, content>>.
NameData(entries) == {<<Last(e.path), e.data>> : e \in FilesOf(entries)}

\* The text holds the token version "<digits> whose digits, all of them, are ds.
HasMajor(s, ds) ==
    \E i \in 1..Len(s) :
        LET from == i + Len(VersionLiteral)
            to == from + Len(ds) - 1
        IN  /\ to <= Len(s)
            /\ SubSeq(s, i, from - 1) = VersionLiteral
            /\ SubSeq(s, from, to) = ds
            /\ (to = Len(s) \/ s[to + 1] \notin Digits)

\* The text holds a token version "<digits> at all.
HasVersionToken(s) ==
    \E i \in 1..Len(s) :
        /\ i + Len(VersionLiteral) <= Len(s)
        /\ SubSeq(s, i, i + Len(VersionLiteral) - 1) = VersionLiteral
        /\ s[i + Len(VersionLiteral)] \in Digits

Java25 == <<"2", "5">>

\* Every stage of run r succeeded, as far as the five fatal conditions go.
AllSucceeded(r) ==
    /\ Tools \subseteq path[r]
    /\ HasMajor(java[r], Java25)
    /\ Has(ops[r], <<"run", "git clone", 0>>)
    /\ Has(ops[r], <<"run", "mvn test", 0>>)
    /\ exists(temp_dir, generated_files_dir)

---------------------------------------------------------------------------
(* C1 *)

\* C1, as claimed: when every stage succeeded and the build left a set S of .sk
\* files, the run exits 0 and the fixture directory holds exactly the files of
\* S, no other file, each with the content the build gave it.
C1_ExactlyTheBuiltFiles ==
    \A r \in Runs :
        (Finished(r) /\ AllSucceeded(r) /\ SkEntries(temp_dir) \subseteq FilesOf(temp_dir))
        => /\ exit[r] = 0
           /\ NameData(output_dir) = NameData(SkEntries(temp_dir))

\* C1, amended: when every stage succeeded and the build left a set S of .sk
\* files, the run exits 0 and the fixture directory holds every file of S with
\* the content the build gave it; any other file in it was there before the
\* run, and is as it was.
C1_BuiltFilesAndWhatWasThere ==
    \A r \in Runs :
        (Finished(r) /\ AllSucceeded(r) /\ SkEntries(temp_dir) \subseteq FilesOf(temp_dir))
        => /\ exit[r] = 0
           /\ pc[r] = "done"
           /\ NameData(SkEntries(temp_dir)) \subseteq NameData(output_dir)
           /\ \A f \in NameData(output_dir) :
                f \in NameData(SkEntries(temp_dir)) \/ f \in NameData(output_dir0[r])
           /\ \A f \in NameData(output_dir0[r]) :
                \E g \in NameData(output_dir) : g[1] = f[1]

\* A run that went through, into a fixture that held a.sk with other content
\* and c.txt, on a build that left a.sk and b.sk.
C1_Witness ==
    /\ pc[1] = "done"
    /\ File(<<"a.sk">>, 1) \in output_dir0[1]
    /\ File(<<"c.txt">>, 1) \in output_dir0[1]
    /\ File(Gen("a.sk"), 2) \in temp_dir
    /\ File(Gen("b.sk"), 1) \in temp_dir
    /\ File(<<"c.txt">>, 1) \in output_dir

---------------------------------------------------------------------------
(* C2 *)

\* A required command is missing from the search path of run r, or the text
\* java -version gave does not hold version "25.
ToolMissing(r) == pc[r] # "idle" /\ ~(Tools \subseteq path[r])

JavaRejected(r) == java[r] # <<>> /\ ~HasMajor(java[r], Java25)

\* C2: when a required tool is not on the search path, or the Java version check
\* fails, the run ends with a non-zero exit before any side effect: the
\* workspace and the fixture directory are as they were when the run started,
\* and neither git clone nor the build was run.
C2_NoSideEffectBeforeVerified ==
    \A r \in Runs :
        /\ ToolMissing(r) => pc[r] \in {"check_git", "check_mvn", "check_java", "exited", "killed"}
        /\ JavaRejected(r) => pc[r] = "exited"
        /\ (ToolMissing(r) \/ JavaRejected(r))
           => /\ pc[r] = "exited" => exit[r] # 0
              /\ temp_dir = temp_dir0[r]
              /\ output_dir = output_dir0[r]
              /\ \A i \in DOMAIN ops[r] : ops[r][i] = <<"java -version">>

\* The run found Java 24 and ended, with a workspace left over from before.
C2_Witness ==
    /\ pc[1] = "exited"
    /\ Tools \subseteq path[1]
    /\ HasMajor(java[1], <<"2", "4">>)
    /\ exists(temp_dir, Gen("a.sk"))

---------------------------------------------------------------------------
(* C3 *)

\* The stage an operation belongs to: 1 verify, 2 workspace reset, 3 clone,
\* 4 build, 5 harvest.
Stage(op) ==
    CASE op[1] = "java -version" -> 1
      [] op[1] \in {"rmtree", "mkdir"} -> 2
      [] op[1] = "run" /\ op[2] = "git clone" -> 3
      [] op[1] = "run" /\ op[2] = "mvn test" -> 4
      [] op[1] \in {"mkdir output_dir", "copy2"} -> 5

Before(r, j, op) == \E i \in 1..(j - 1) : ops[r][i] = op

\* C3: the stages of a run happen in the order verify, workspace reset, clone,
\* build, harvest, each after the one before it succeeded: the workspace is
\* reset only once the tools and Java 25 were found, git clone runs only on a
\* workspace the run made, the build only after a clone that returned 0, the
\* copies only after a build that returned 0, and a command that failed is the
\* last thing the run did.
C3_StagesInOrder ==
    \A r \in Runs :
        /\ \A j \in DOMAIN ops[r] :
            /\ \A i \in 1..(j - 1) : Stage(ops[r][i]) <= Stage(ops[r][j])
            /\ Stage(ops[r][j]) >= 2 => Tools \subseteq path[r] /\ HasMajor(java[r], Java25)
            /\ Stage(ops[r][j]) = 3 => Before(r, j, <<"java -version">>) /\ Before(r, j, <<"mkdir">>)
            /\ Stage(ops[r][j]) = 4 => Before(r, j, <<"run", "git clone", 0>>)
            /\ Stage(ops[r][j]) = 5 => Before(r, j, <<"run", "mvn test", 0>>)
            /\ (ops[r][j][1] = "run" /\ ops[r][j][3] # 0)
               => j = Len(ops[r]) /\ pc[r] = "exited" /\ exit[r] # 0
        /\ Has(out[r], <<"Error: Expected generated files directory not found">>)
           => \A j \in DOMAIN ops[r] : Stage(ops[r][j]) < 5

\* A run that went through all five stages, the rmtree and a copy among them.
C3_Witness ==
    /\ pc[1] = "done"
    /\ Has(ops[1], <<"rmtree">>)
    /\ Has(ops[1], <<"copy2", "a.sk">>)
    /\ Has(ops[1], <<"copy2", "b.sk">>)

---------------------------------------------------------------------------
(* C4 *)

\* C4: a run that ended by itself has exit code 0 exactly when every stage
\* succeeded: all tools found, Java 25 found, clone and build returned 0 and
\* the build's output directory is there.
C4_ExitZeroIffAllSucceeded ==
    \A r \in Runs : Finished(r) => (exit[r] = 0 <=> AllSucceeded(r))

---------------------------------------------------------------------------
(* C5 *)

\* C5: the Java check is an equality check on the major version: a text with
\* the token version "25 is accepted, the version is printed and the run goes
\* on; a text with another major version (24, 26, ...) or with no token
\* version "<digits> ends the run with a non-zero exit, and nothing else was done.
C5_Java25Exactly ==
    \A r \in Runs :
        java[r] # <<>> =>
            /\ HasMajor(java[r], Java25)
               => /\ Has(out[r], <<"Found Java", RequiredJava>>)
                  /\ pc[r] # "java_version"
                  /\ pc[r] = "exited" => Has(ops[r], <<"mkdir">>)
            /\ ~HasMajor(java[r], Java25)
               => /\ pc[r] = "exited"
                  /\ exit[r] # 0
                  /\ ops[r] = << <<"java -version">> >>
                  /\ \A i \in DOMAIN out[r] : out[r][i][1] # "Found Java"
            /\ (HasVersionToken(java[r]) /\ ~HasMajor(java[r], Java25))
               => out[r][Len(out[r])][1] = "Error: Java 25 is required, but found Java"
            /\ (~HasVersionToken(java[r]) /\ java[r] # OSError)
               => Has(out[r], <<"Error: Could not parse Java version.">>)

\* Java 26 was found, and the run ended there.
C5_Witness ==
    /\ pc[1] = "exited"
    /\ HasMajor(java[1], <<"2", "6">>)
    /\ exit[1] = 1

---------------------------------------------------------------------------
(* C6 *)

\* C6: whatever was at the workspace path when the run started (nothing, an
\* empty directory, what an earlier run left), git clone is started on a
\* workspace that exists and is empty, the reset step does not fail, and
\* resetting twice leaves what resetting once leaves.
C6_ResetLeavesEmptyWorkspace ==
    /\ reset(temp_dir) = EmptyDir
    /\ reset(reset(temp_dir)) = reset(temp_dir)
    /\ \A r \in Runs :
        /\ pc[r] = "clone" => temp_dir = EmptyDir
        /\ (Finished(r) /\ Tools \subseteq path[r] /\ HasMajor(java[r], Java25))
           => Has(ops[r], <<"mkdir">>)

\* The run is about to clone, and started with a workspace an earlier run left.
C6_Witness ==
    /\ pc[1] = "clone"
    /\ exists(temp_dir0[1], Gen("a.sk"))
    /\ Has(ops[1], <<"rmtree">>)
    /\ temp_dir = EmptyDir

---------------------------------------------------------------------------
(* C7 *)

\* C7: a run that came to the harvest and ended by itself copied every entry
\* directly inside the build's output directory whose name ends in .sk and no
\* other entry, and reported their number.
C7_CopiesEverySkEntry ==
    \A r \in Runs :
        (Finished(r) /\ Has(out[r], <<"Copying files">>))
        => LET sk == {Last(e.path) : e \in SkEntries(temp_dir)}
           IN  /\ {n \in sk \cup {"c.txt", "f.skx", "sk", "sub", "e.sk"} : Has(ops[r], <<"copy2", n>>)} = sk
               /\ \A n \in sk : exists(output_dir, <<n>>)
               /\ IF sk = {}
                  THEN Has(out[r], <<"Warning: No .sk files were found to copy.">>)
                  ELSE Has(out[r], <<"Successfully copied", Cardinality(sk)>>)

---------------------------------------------------------------------------
(* C8 *)

\* C8: after a build that returned 0, an output directory with no entry named
\* *.sk makes the run warn that nothing was copied, copy nothing and exit 0;
\* an output directory that is not there makes it exit non-zero with a message
\* of its own, not the one of a failed command.
C8_EmptyWarnsMissingFails ==
    \A r \in Runs :
        (Finished(r) /\ Has(ops[r], <<"run", "mvn test", 0>>))
        => /\ (exists(temp_dir, generated_files_dir) /\ SkEntries(temp_dir) = {})
              => /\ pc[r] = "done"
                 /\ exit[r] = 0
                 /\ Has(out[r], <<"Warning: No .sk files were found to copy.">>)
                 /\ \A i \in DOMAIN ops[r] : ops[r][i][1] # "copy2"
                 /\ FilesOf(output_dir) = FilesOf(output_dir0[r])
           /\ ~exists(temp_dir, generated_files_dir)
              => /\ pc[r] = "exited"
                 /\ exit[r] # 0
                 /\ out[r][Len(out[r])] = <<"Error: Expected generated files directory not found">>
                 /\ \A i \in DOMAIN out[r] : out[r][i][1] # "Error running command"

\* The build left files and a subdirectory, none named *.sk directly in the
\* output directory; the run warned and returned.
C8_Witness ==
    /\ pc[1] = "done"
    /\ exists(temp_dir, Gen("f.skx"))
    /\ exists(temp_dir, Gen("sub") \o <<"e.sk">>)
    /\ exit[1] = 0
    /\ Has(out[1], <<"Warning: No .sk files were found to copy.">>)

---------------------------------------------------------------------------
(* C9 *)

\* C9: when the fixture directory held a file of the name of an artifact the
\* run copied, it holds one file of that name afterwards, with the content of
\* the build's file; a file that is already there never makes the harvest fail.
C9_SameNameOverwritten ==
    \A r \in Runs :
        /\ \A old \in FilesOf(output_dir0[r]) :
            Has(ops[r], <<"copy2", Last(old.path)>>)
            => /\ Cardinality({e \in output_dir : e.path = old.path}) = 1
               /\ At(output_dir, old.path).kind = "file"
               /\ At(output_dir, old.path).data = At(temp_dir, Gen(Last(old.path))).data
        /\ (pc[r] = "exited" /\ Has(out[r], <<"Copying files">>))
           => ~(SkEntries(temp_dir) \subseteq FilesOf(temp_dir))

\* a.sk was in the fixture directory with content 1, and was copied with content 2.
C9_Witness ==
    /\ pc[1] = "done"
    /\ File(<<"a.sk">>, 1) \in output_dir0[1]
    /\ Has(ops[1], <<"copy2", "a.sk">>)
    /\ File(<<"a.sk">>, 2) \in output_dir
    /\ File(Gen("a.sk"), 2) \in temp_dir

---------------------------------------------------------------------------
(* C10 *)

\* C10: no step of any run, successful or not, removes a file from the fixture
\* directory, and a step changes the content of a file in it only by copying
\* the .sk artifact of that name from the build's output.
C10_FixtureOnlyGrows ==
    [][ \A old \in FilesOf(output_dir) :
          \E new \in FilesOf(output_dir') :
             /\ new.path = old.path
             /\ new.data # old.data
                => \E r \in Runs :
                     /\ pc[r] = "copy"
                     /\ Last(old.path) \in todo[r]
                     /\ EndsInSk(Last(old.path))
                     /\ File(Gen(Last(old.path)), new.data) \in temp_dir ]_vars

\* The fixture directory held b.sk and c.txt, the build left a.sk alone, and
\* after the run b.sk and c.txt are there as they were.
C10_Witness ==
    /\ pc[1] = "done"
    /\ Has(ops[1], <<"copy2", "a.sk">>)
    /\ ~exists(temp_dir, Gen("b.sk"))
    /\ File(<<"b.sk">>, 1) \in output_dir0[1] /\ File(<<"b.sk">>, 1) \in output_dir
    /\ File(<<"c.txt">>, 1) \in output_dir0[1] /\ File(<<"c.txt">>, 1) \in output_dir

---------------------------------------------------------------------------
(* C11 *)

\* C11: the workspace is removed by the reset step of a run and by nothing
\* else; no step from the check of the build's output on changes it, so when
\* main() returns the workspace is there with the artifacts that were copied,
\* and it stays so until the reset step of the next run.
C11_WorkspaceKeptUntilNextReset ==
    [][ /\ (\E e \in temp_dir : e.path \notin Paths(temp_dir'))
           => \E r \in Runs : pc[r] = "rmtree" /\ pc'[r] = "mkdir"
        /\ temp_dir' # temp_dir
           => \E r \in Runs : pc[r] \in {"rmtree", "mkdir", "clone", "build"}
        /\ \A r \in Runs :
             pc'[r] = "done"
             => /\ exists(temp_dir', <<>>)
                /\ \A i \in DOMAIN ops'[r] :
                     ops'[r][i][1] = "copy2"
                     => \E f \in FilesOf(temp_dir') :
                          /\ f.path = Gen(ops'[r][i][2])
                          /\ File(<<ops'[r][i][2]>>, f.data) \in output_dir' ]_vars

\* main() returned; the workspace still holds the checkout and a.sk and b.sk,
\* which are in the fixture directory too.
C11_Witness ==
    /\ pc[1] = "done"
    /\ exit[1] = 0
    /\ Checkout \subseteq temp_dir
    /\ File(Gen("a.sk"), 1) \in temp_dir /\ File(<<"a.sk">>, 1) \in output_dir
    /\ File(Gen("b.sk"), 1) \in temp_dir /\ File(<<"b.sk">>, 1) \in output_dir
    /\ files_copied[1] = 2

---------------------------------------------------------------------------
(* C12 *)

Count(r, command) ==
    Cardinality({i \in DOMAIN ops[r] : ops[r][i][1] = "run" /\ ops[r][i][2] = command})

\* C12: a run starts git clone at most once and the build at most once, and a
\* status other than 0 from either ends the run with a non-zero exit at once:
\* that command is the last thing the run did.
C12_NoRetry ==
    \A r \in Runs :
        /\ Count(r, "git clone") <= 1
        /\ Count(r, "mvn test") <= 1
        /\ \A i \in DOMAIN ops[r] :
             (ops[r][i][1] = "run" /\ ops[r][i][3] # 0)
             => /\ i = Len(ops[r])
                /\ pc[r] = "exited"
                /\ exit[r] = 1
                /\ out[r][Len(out[r])] = <<"Error running command", ops[r][i][2]>>

\* The build returned 1 after a clone that returned 0, and the run ended.
C12_Witness ==
    /\ pc[1] = "exited"
    /\ Has(ops[1], <<"run", "git clone", 0>>)
    /\ ops[1][Len(ops[1])] = <<"run", "mvn test", 1>>

---------------------------------------------------------------------------
(* C13 *)

\* Run r has cloned into the workspace and has not come to the end of its harvest.
InUse(r) ==
    /\ Has(ops[r], <<"run", "git clone", 0>>)
    /\ pc[r] \in {"build", "check_generated", "mkdir_output", "glob", "copy"}

\* C13: nothing keeps a run out of the workspace another run is using. With two
\* runs interleaved, the workspace of a run that has cloned into it and is not
\* through with its harvest can be gone, and then it is the reset step of the
\* other run that removed it; the run whose workspace was taken fails at its
\* build: with an uncaught FileNotFoundError when the directory is gone, with
\* the status of mvn when the other run has made the directory anew and not
\* yet cloned into it. When the other run has cloned by then, the build goes
\* on in a checkout the run did not make.
C13_ResetUnderARunningRun ==
    [][ \A r \in Runs :
          /\ (InUse(r) /\ ~exists(temp_dir, <<>>))
             => /\ pc[Other(r)] = "mkdir"
                /\ ops[Other(r)][Len(ops[Other(r)])] = <<"rmtree">>
          /\ (InUse(r) /\ temp_dir # temp_dir' /\ pc'[r] = pc[r])
             => pc[Other(r)] \in {"rmtree", "mkdir", "clone", "build"}
          /\ (pc[r] = "build" /\ pc'[r] # "build" /\ ~exists(temp_dir, <<>>))
             => /\ pc'[r] = "exited"
                /\ exit'[r] = 1
                /\ out'[r][Len(out'[r])] = <<"Traceback", "FileNotFoundError">>
                /\ temp_dir' = temp_dir
          /\ (pc[r] = "build" /\ pc'[r] # "build" /\ temp_dir = EmptyDir)
             => /\ pc'[r] = "exited"
                /\ exit'[r] = 1
                /\ ops'[r][Len(ops'[r])] = <<"run", "mvn test", 1>> ]_vars

\* Run 1 cloned, run 2 removed the workspace in its reset step, and run 1 went
\* on to its build, which ended in the FileNotFoundError.
C13_Witness ==
    /\ pc[1] = "exited"
    /\ ops[1][Len(ops[1])] = <<"run", "git clone", 0>>
    /\ out[1][Len(out[1])] = <<"Traceback", "FileNotFoundError">>
    /\ Has(ops[2], <<"rmtree">>)
    /\ ~Has(ops[2], <<"run", "git clone", 0>>)

---------------------------------------------------------------------------
(* C14 *)

\* The first of git, mvn, java, in this order, that is not on the search path.
FirstMissing(p) ==
    IF "git" \notin p THEN "git" ELSE IF "mvn" \notin p THEN "mvn" ELSE "java"

\* C14: the tools are checked in the order git, mvn, java, before java -version
\* is run: with a tool missing, the run exits non-zero at the first missing one
\* with a message that names it, and that message is all it printed: no later
\* tool was reported and java -version was not run.
C14_FirstMissingToolNamed ==
    \A r \in Runs :
        /\ pc[r] = "check_mvn" => "git" \in path[r]
        /\ pc[r] = "check_java" => {"git", "mvn"} \subseteq path[r]
        /\ pc[r] = "java_version" => Tools \subseteq path[r]
        /\ java[r] # <<>> => Tools \subseteq path[r]
        /\ (ToolMissing(r) /\ Finished(r))
           => /\ exit[r] = 1
              /\ out[r] = << <<"Error: not installed or not in PATH", FirstMissing(path[r])>> >>
              /\ ops[r] = <<>>
              /\ java[r] = <<>>

\* Only git is on the search path: the run named mvn and ended.
C14_Witness ==
    /\ pc[1] = "exited"
    /\ path[1] = {"git"}
    /\ out[1] = << <<"Error: not installed or not in PATH", "mvn">> >>

---------------------------------------------------------------------------
(* C15 *)

\* C15: when a run ends on one of the five fatal conditions (a tool missing,
\* Java 25 not found, clone or build failed, the build's output directory
\* missing), the fixture directory is as it was when the run started, not even
\* created; it is created or written only once all five checks have passed.
C15_FixtureUntouchedOnFailure ==
    \A r \in Runs :
        /\ (pc[r] = "exited" /\ ~AllSucceeded(r)) => output_dir = output_dir0[r]
        /\ (pc[r] # "idle" /\ output_dir # output_dir0[r]) => AllSucceeded(r)
        /\ (\E i \in DOMAIN ops[r] : ops[r][i][1] \in {"mkdir output_dir", "copy2"})
           => AllSucceeded(r)

\* The build returned 0 without its output directory; the run ended, and the
\* fixture directory, which was not there, was not made.
C15_Witness ==
    /\ pc[1] = "exited"
    /\ Has(ops[1], <<"run", "mvn test", 0>>)
    /\ out[1][Len(out[1])] = <<"Error: Expected generated files directory not found">>
    /\ output_dir0[1] = NoPath
    /\ output_dir = NoPath

---------------------------------------------------------------------------
(* C16 *)

\* The fixture directory a harvest of the entries S makes of the directory F:
\* the files of F under names not in S, and the files of S.
Harvest(F, S) ==
    EmptyDir
    \cup {f \in FilesOf(F) : \A e \in S : Last(e.path) # Last(f.path)}
    \cup {File(<<Last(e.path)>>, e.data) : e \in S}

\* The build of the first run, if it came to its end with status 0, left the
\* same .sk entries as the build of the second.
SameBuild ==
    Has(ops[1], <<"run", "mvn test", 0>>) => SkEntries(temp_dir0[2]) = SkEntries(temp_dir)

\* C16: running the script again is idempotent. A first run alone that returns
\* leaves Harvest(F, S) of the fixture F it started from and the build's .sk
\* files S; a second run that returns, after a first run that returned, failed
\* or was interrupted at whatever step, leaves the same Harvest(F, S) of the
\* fixture F the first run started from, provided the two builds gave the same
\* .sk files. What the first run left in the workspace does not stop the
\* second: it clones into an empty directory.
C16_RerunIdempotent ==
    /\ (pc[1] = "done" /\ pc[2] = "idle")
       => output_dir = Harvest(output_dir0[1], SkEntries(temp_dir))
    /\ (pc[2] = "done" /\ SameBuild)
       => output_dir = Harvest(output_dir0[1], SkEntries(temp_dir))
    /\ (pc[2] = "done" /\ exit[1] = 0 /\ SameBuild)
       => output_dir = output_dir0[2]
    /\ pc[2] = "clone" => temp_dir = EmptyDir
    /\ pc[2] = "exited" => out[2][Len(out[2])] # <<"Traceback", "FileExistsError">>

\* The first run was interrupted in its copy loop with one of a.sk and b.sk
\* copied, a.sk being in the fixture with other content before; the second
\* run, its build giving the same files, returned.
C16_Witness ==
    /\ pc[2] = "done"
    /\ exit[1] = SIGINT_STATUS
    /\ files_copied[1] = 1
    /\ files_copied[2] = 2
    /\ SameBuild
    /\ File(<<"a.sk">>, 2) \in output_dir0[1]
    /\ File(<<"a.sk">>, 1) \in output_dir
    /\ File(<<"b.sk">>, 1) \in output_dir

====
